---- MODULE Spec2Model ----
(***************************************************************************)
(* Model of src/src/main.rs: the two-proportion z-test ab_conversion_test  *)
(* and the decoding of its result in main.                                 *)
(*                                                                         *)
(* Numbers.  usize is modelled as an unsigned integer of UsizeBits bits    *)
(* (the source has 64).  f64 is modelled as a binary floating-point format *)
(* with round-to-nearest-even, MantBits bits of significand (the source    *)
(* has 53) and a smallest positive value of 2^-FracBits (the source has    *)
(* 2^-1074): a finite value is held as the integer number of units of      *)
(* 2^-FracBits, so values below 2^MantBits units are spaced one unit apart *)
(* exactly as the subnormal and lowest normal binades of f64 are.  NaN and *)
(* the infinities are separate values with the IEEE 754 rules.  The sign   *)
(* of zero is not modelled (no operation of the program on non-negative    *)
(* rates produces a negative zero), and no finite result overflows to an   *)
(* infinity (with the finite rates of the model, at most 2.0, and sizes    *)
(* below 2^64 every intermediate value of the source is far below the      *)
(* largest f64).                                                           *)
(***************************************************************************)
EXTENDS Integers

VARIABLES pc, overflow_checks, args, ret, out, first

vars == <<pc, overflow_checks, args, ret, out, first>>

----------------------------------------------------------------------------
(* Bounds of the model *)

UsizeBits == 4
MantBits == 3
FracBits == 5

(* Program constants *)

MinSample == 5
ZCritHundredths == 196

----------------------------------------------------------------------------
(* Integer helpers *)

RECURSIVE Pow2(_)
Pow2(n) == IF n = 0 THEN 1 ELSE 2 * Pow2(n - 1)

Abs(a) == IF a < 0 THEN -a ELSE a

Sgn(a) == IF a < 0 THEN -1 ELSE IF a = 0 THEN 0 ELSE 1

UsizeMod == Pow2(UsizeBits)

UsizeMax == UsizeMod - 1

Unit == Pow2(FracBits)

----------------------------------------------------------------------------
(* f64 values *)

NaN == [k |-> "nan", v |-> 0]

Inf(s) == [k |-> "inf", v |-> s]

Fin(a) == [k |-> "fin", v |-> a]

IsNaN(x) == x.k = "nan"

IsInf(x) == x.k = "inf"

IsFin(x) == x.k = "fin"

(* The power of two q such that a/b, in units, lies in a binade whose      *)
(* representable values are the multiples of q.                            *)
RECURSIVE QuantumFrom(_, _, _)
QuantumFrom(m, b, q) ==
    IF m < Pow2(MantBits) * q * b THEN q ELSE QuantumFrom(m, b, 2 * q)

(* m/d rounded to the nearest integer, ties to even *)
NearestEven(m, d) ==
    LET f == m \div d
        r == m % d
    IN  IF 2 * r < d THEN f
        ELSE IF 2 * r > d THEN f + 1
        ELSE IF f % 2 = 0 THEN f ELSE f + 1

(* a/b units (b > 0) rounded to the nearest representable value *)
Round(a, b) ==
    LET m == Abs(a)
        q == QuantumFrom(m, b, 1)
    IN  Sgn(a) * q * NearestEven(m, b * q)

RECURSIVE ISqrtFrom(_, _)
ISqrtFrom(n, r) == IF (r + 1) * (r + 1) > n THEN r ELSE ISqrtFrom(n, r + 1)

(* sqrt(n) for an integer n >= 0, rounded to the nearest representable     *)
(* value, ties to even                                                     *)
RoundSqrt(n) ==
    LET r == ISqrtFrom(n, 0)
        q == QuantumFrom(r, 1, 1)
        f == r \div q
        below == q * f
        twiceMid == 2 * below + q
    IN  IF 4 * n < twiceMid * twiceMid THEN below
        ELSE IF 4 * n > twiceMid * twiceMid THEN below + q
        ELSE IF f % 2 = 0 THEN below ELSE below + q

FNeg(x) == IF IsNaN(x) THEN NaN ELSE IF IsInf(x) THEN Inf(-x.v) ELSE Fin(-x.v)

FAbs(x) == IF IsNaN(x) THEN NaN ELSE IF IsInf(x) THEN Inf(1) ELSE Fin(Abs(x.v))

FAdd(x, y) ==
    IF IsNaN(x) \/ IsNaN(y) THEN NaN
    ELSE IF IsInf(x) /\ IsInf(y) THEN (IF x.v = y.v THEN x ELSE NaN)
    ELSE IF IsInf(x) THEN x
    ELSE IF IsInf(y) THEN y
    ELSE Fin(Round(x.v + y.v, 1))

FSub(x, y) == FAdd(x, FNeg(y))

FMul(x, y) ==
    IF IsNaN(x) \/ IsNaN(y) THEN NaN
    ELSE IF IsInf(x) \/ IsInf(y)
         THEN (IF Sgn(x.v) * Sgn(y.v) = 0 THEN NaN ELSE Inf(Sgn(x.v) * Sgn(y.v)))
    ELSE Fin(Round(x.v * y.v, Unit))

FDiv(x, y) ==
    IF IsNaN(x) \/ IsNaN(y) THEN NaN
    ELSE IF IsInf(x) THEN (IF IsInf(y) THEN NaN
                           ELSE Inf(x.v * (IF y.v < 0 THEN -1 ELSE 1)))
    ELSE IF IsInf(y) THEN Fin(0)
    ELSE IF y.v = 0 THEN (IF x.v = 0 THEN NaN ELSE Inf(Sgn(x.v)))
    ELSE Fin(Round(x.v * Unit * Sgn(y.v), Abs(y.v)))

FSqrt(x) ==
    IF IsNaN(x) THEN NaN
    ELSE IF IsInf(x) THEN (IF x.v > 0 THEN x ELSE NaN)
    ELSE IF x.v < 0 THEN NaN
    ELSE Fin(RoundSqrt(x.v * Unit))

(* x > y and x < y on f64: false when either side is NaN *)
FGt(x, y) ==
    IF IsNaN(x) \/ IsNaN(y) THEN FALSE
    ELSE IF IsInf(x) THEN x.v > 0 /\ ~(IsInf(y) /\ y.v > 0)
    ELSE IF IsInf(y) THEN y.v < 0
    ELSE x.v > y.v

FLt(x, y) == FGt(y, x)

FLe(x, y) == ~IsNaN(x) /\ ~IsNaN(y) /\ ~FGt(x, y)

(* n as f64 *)
UsizeAsF64(n) == Fin(Round(n * Unit, 1))

(* x as usize: truncates toward zero, saturates, NaN gives 0 *)
F64AsUsize(x) ==
    IF IsNaN(x) THEN 0
    ELSE IF IsInf(x) THEN (IF x.v > 0 THEN UsizeMax ELSE 0)
    ELSE IF x.v < 0 THEN 0
    ELSE IF x.v \div Unit > UsizeMax THEN UsizeMax
    ELSE x.v \div Unit

One == Fin(Unit)

Zero == Fin(0)

(* the literal 1.96 *)
ZCrit == Fin(Round(ZCritHundredths * Unit, 100))

----------------------------------------------------------------------------
(* ab_conversion_test, main.rs lines 26-45 *)

Insufficient == "Insufficient sample size."

NotSignificant == "No statistically significant difference was found."

Err(msg) == [kind |-> "Err", msg |-> msg, winner |-> NaN, lo |-> NaN, hi |-> NaN]

Ok(w, l, h) == [kind |-> "Ok", msg |-> "", winner |-> w, lo |-> l, hi |-> h]

(* the panic 'attempt to add with overflow' of a build with overflow checks *)
Panic == [kind |-> "Panic", msg |-> "attempt to add with overflow",
          winner |-> NaN, lo |-> NaN, hi |-> NaN]

(* the check with && for || *)
too_small_both(n1, n2) == n1 < MinSample /\ n2 < MinSample

(* n1 < 5 || n2 < 5 *)
too_small(n1, n2) == n1 < MinSample \/ n2 < MinSample

(* n1 + n2 on usize overflows *)
add_overflows(n1, n2) == n1 + n2 > UsizeMax

(* n1 + n2 on usize in a build without overflow checks *)
wrapping_add(n1, n2) == (n1 + n2) % UsizeMod

(* let p = (p1 * (n1 as f64) + p2 * (n2 as f64)) / ((n1 + n2) as f64),     *)
(* sum being the value of n1 + n2                                          *)
p(p1, n1, p2, n2, sum) ==
    FDiv(FAdd(FMul(p1, UsizeAsF64(n1)), FMul(p2, UsizeAsF64(n2))), UsizeAsF64(sum))

(* the difference without .abs() *)
numerator_signed(p1, p2) == FSub(p1, p2)

(* let numerator = (p1 - p2).abs() *)
numerator(p1, p2) == FAbs(FSub(p1, p2))

(* let denominator = (p * (1.0 - p) * ((1.0 / n1) + (1.0 / n2))).sqrt() *)
denominator(pp, n1, n2) ==
    FSqrt(FMul(FMul(pp, FSub(One, pp)),
               FAdd(FDiv(One, UsizeAsF64(n1)), FDiv(One, UsizeAsF64(n2)))))

(* let z = numerator / denominator *)
z(num, den) == FDiv(num, den)

(* let moe = 1.96 * denominator *)
moe(den) == FMul(ZCrit, den)

(* let lo = numerator - moe *)
lo(num, m) == FSub(num, m)

(* the operands of the upper bound exchanged and subtracted *)
hi_reversed(num, m) == FSub(m, num)

(* let hi = numerator + moe *)
hi(num, m) == FAdd(num, m)

(* the threshold 1.0 for 1.96 *)
significant_above_one(zz) == FGt(zz, One)

(* z > 1.96 *)
significant(zz) == FGt(zz, ZCrit)

(* if p1 > p2 { n1 } else { n2 } as f64 *)
winner(p1, n1, p2, n2) == UsizeAsF64(IF FGt(p1, p2) THEN n1 ELSE n2)

(* The body after the sample-size check, sum being the value of n1 + n2 *)
test_body(p1, n1, p2, n2, sum) ==
    LET pp == p(p1, n1, p2, n2, sum)
        num == numerator(p1, p2)
        den == denominator(pp, n1, n2)
        m == moe(den)
    IN  IF significant(z(num, den))
        THEN Ok(winner(p1, n1, p2, n2), lo(num, m), hi(num, m))
        ELSE Err(NotSignificant)

(* checks: whether the build has overflow checks (debug) or not (release) *)
ab_conversion_test(p1, n1, p2, n2, checks) ==
    IF too_small(n1, n2) THEN Err(Insufficient)
    ELSE IF checks /\ add_overflows(n1, n2) THEN Panic
    ELSE test_body(p1, n1, p2, n2, wrapping_add(n1, n2))

(* main's match on the result, lines 55-60: the line printed *)
report(r, n1, n2) ==
    IF r.kind = "Ok" /\ F64AsUsize(r.winner) = n1 THEN "Version A is the winner!"
    ELSE IF r.kind = "Ok" /\ F64AsUsize(r.winner) = n2 THEN "Version B is the winner!"
    ELSE IF r.kind = "Ok" THEN ""
    ELSE r.msg

----------------------------------------------------------------------------
(* Inputs.  main's four inputs are literals in the source; here the rates  *)
(* and sizes of a call range over the sets below.                          *)

(* every f64 in [0, 1] *)
Rates == {Fin(a) : a \in {b \in 0..Unit : Round(b, 1) = b}}

(* rates outside [0, 1]: 2.0, +infinity and NaN *)
OtherRates == {Fin(2 * Unit), Inf(1), NaN}

(* sample sizes around the minimum and at the top of usize *)
Sizes ==
    ((MinSample - 1)..(MinSample + 2)) \cup ((UsizeMax - MinSample + 1)..UsizeMax)

NoArgs == [p1 |-> Zero, n1 |-> 0, p2 |-> Zero, n2 |-> 0]

NoCall == [p1 |-> Zero, p2 |-> Zero, se |-> NaN, z |-> NaN]

----------------------------------------------------------------------------
(* The program: main calls ab_conversion_test and prints what it returns. *)

Init ==
    /\ pc = "start"
    /\ overflow_checks \in BOOLEAN
    /\ args = NoArgs
    /\ ret = Err("")
    /\ out = ""
    /\ first = NoCall

Call ==
    /\ pc = "start"
    /\ \E p1 \in Rates \cup OtherRates, p2 \in Rates \cup OtherRates,
          n1 \in Sizes, n2 \in Sizes :
          /\ args' = [p1 |-> p1, n1 |-> n1, p2 |-> p2, n2 |-> n2]
          /\ ret' = ab_conversion_test(p1, n1, p2, n2, overflow_checks)
    /\ pc' = IF ret'.kind = "Panic" THEN "panicked" ELSE "returned"
    /\ UNCHANGED <<overflow_checks, out, first>>

MainMatch ==
    /\ pc = "returned"
    /\ out' = report(ret, args.n1, args.n2)
    /\ pc' = "done"
    /\ UNCHANGED <<overflow_checks, args, ret, first>>

Next == Call \/ MainMatch

Spec == Init /\ [][Next]_vars

----------------------------------------------------------------------------
(* Two calls with the same sample sizes, for comparing their statistics.  *)
(* `first' keeps the first call's rates, standard error and z.            *)

(* sizes of the two-call specification: none of their sums overflows *)
MonoSizes == {MinSample, MinSample + 1}

(* the locals denominator and z of a call whose n1 + n2 does not overflow *)
locals(p1, n1, p2, n2) ==
    LET num == numerator(p1, p2)
        den == denominator(p(p1, n1, p2, n2, wrapping_add(n1, n2)), n1, n2)
    IN  [p1 |-> p1, p2 |-> p2, se |-> den, z |-> z(num, den)]

InitMono == Init /\ overflow_checks = FALSE

FirstCall ==
    /\ pc = "start"
    /\ \E p1 \in Rates, p2 \in Rates, n1 \in MonoSizes, n2 \in MonoSizes :
          /\ args' = [p1 |-> p1, n1 |-> n1, p2 |-> p2, n2 |-> n2]
          /\ ret' = ab_conversion_test(p1, n1, p2, n2, overflow_checks)
          /\ first' = locals(p1, n1, p2, n2)
    /\ pc' = "first"
    /\ UNCHANGED <<overflow_checks, out>>

(* the second call has the first one's sizes and a larger |p1 - p2| *)
SecondCall ==
    /\ pc = "first"
    /\ \E q1 \in Rates, q2 \in Rates :
          /\ Abs(q1.v - q2.v) > Abs(first.p1.v - first.p2.v)
          /\ args' = [p1 |-> q1, n1 |-> args.n1, p2 |-> q2, n2 |-> args.n2]
          /\ ret' = ab_conversion_test(q1, args.n1, q2, args.n2, overflow_checks)
    /\ pc' = "second"
    /\ UNCHANGED <<overflow_checks, out, first>>

NextMono == FirstCall \/ SecondCall

SpecMono == InitMono /\ [][NextMono]_vars

----------------------------------------------------------------------------
(* Properties *)

Called == pc \in {"returned", "panicked", "done"}

Enough == args.n1 >= MinSample /\ args.n2 >= MinSample

(* both rates are in [0, 1] *)
InRange == args.p1 \in Rates /\ args.p2 \in Rates

(* the statistic of the formulas, with n1 + n2 the mathematical sum *)
FormulaZ ==
    z(numerator(args.p1, args.p2),
      denominator(p(args.p1, args.n1, args.p2, args.n2, args.n1 + args.n2),
                  args.n1, args.n2))

(* the standard error the call computed *)
ComputedSe ==
    denominator(p(args.p1, args.n1, args.p2, args.n2,
                  wrapping_add(args.n1, args.n2)), args.n1, args.n2)

(* C1: whenever n1 < 5 or n2 < 5 the call returns Err("Insufficient sample *)
(* size."), whatever the rates are and before anything else is computed    *)
(* (in particular before the sum n1 + n2, which may overflow).             *)
C1_Insufficient ==
    (Called /\ (args.n1 < 5 \/ args.n2 < 5)) => ret = Err(Insufficient)

(* a call with one size too small, different rates and an overflowing sum  *)
(* in a build that checks overflow returned Insufficient                   *)
C1_Witness ==
    /\ pc = "returned"
    /\ args.n1 >= 5 /\ args.n2 < 5
    /\ args.p1 # args.p2
    /\ overflow_checks /\ args.n1 + args.n2 > UsizeMax
    /\ ret = Err(Insufficient)

(* C2: with n1, n2 >= 5 and rates in [0,1] the call returns Ok exactly when the z of the      *)
(* formulas (pooled proportion over n1 + n2) exceeds 1.96, and             *)
(* Err("No statistically significant difference was found.") otherwise.    *)
C2_SignificantIffZ ==
    (Called /\ Enough /\ InRange) =>
        /\ ret.kind = "Ok" <=> FGt(FormulaZ, ZCrit)
        /\ ret.kind # "Ok" => ret = Err(NotSignificant)

(* C3: when the call returns Ok, main reports the variant with the         *)
(* strictly higher rate: A when p1 > p2, B when p2 > p1.  Stated for the   *)
(* calls whose sum n1 + n2 does not overflow and whose standard error is   *)
(* positive, where the outcome rests on a finite z.                        *)
C3_WinnerHigherRate ==
    (pc = "done" /\ ret.kind = "Ok" /\ args.n1 + args.n2 <= UsizeMax
        /\ FGt(ComputedSe, Zero)) =>
        /\ FGt(args.p1, args.p2) => out = "Version A is the winner!"
        /\ FGt(args.p2, args.p1) => out = "Version B is the winner!"

(* C4: with n1, n2 >= 5 and p1 = p2 in [0,1] the outcome is               *)
(* NotSignificant.                                                         *)
C4_EqualRatesNotSignificant ==
    (Called /\ Enough /\ InRange /\ args.p1 = args.p2)
        => ret = Err(NotSignificant)

(* C5: with n1, n2 >= 5, rates in [0,1] and a sum that does not overflow,  *)
(* when the standard error computes to 0 the outcome is NotSignificant.    *)
C5_ZeroSeNotSignificant ==
    (Called /\ Enough /\ InRange /\ args.n1 + args.n2 <= UsizeMax
        /\ ComputedSe = Zero)
        => ret = Err(NotSignificant)

(* C6: the call with the variants exchanged returns the same kind of       *)
(* outcome and, when Significant, the same winner (the size of the sample  *)
(* with the strictly higher rate) and the same lo and hi.                  *)
C6_Symmetric ==
    Called =>
        LET s == ab_conversion_test(args.p2, args.n2, args.p1, args.n1,
                                    overflow_checks)
        IN  /\ s.kind = ret.kind
            /\ s.msg = ret.msg
            /\ ret.kind = "Ok" =>
                  /\ s.winner = ret.winner /\ s.lo = ret.lo /\ s.hi = ret.hi
                  /\ FGt(args.p1, args.p2) \/ FGt(args.p2, args.p1)
                  /\ FGt(args.p1, args.p2) => ret.winner = UsizeAsF64(args.n1)
                  /\ FGt(args.p2, args.p1) => ret.winner = UsizeAsF64(args.n2)

(* a Significant outcome for different sizes and a positive standard error *)
C6_Witness ==
    /\ pc = "returned"
    /\ ret.kind = "Ok"
    /\ args.n1 # args.n2
    /\ FGt(ComputedSe, Zero)
    /\ FGt(args.p2, args.p1)

(* C8: a Significant outcome has lo <= hi.                                 *)
C8_LoLeHi == (Called /\ ret.kind = "Ok") => FLe(ret.lo, ret.hi)

(* a Significant outcome with a positive margin of error: lo < hi          *)
C8_Witness ==
    /\ pc = "returned"
    /\ ret.kind = "Ok"
    /\ FGt(ComputedSe, Zero)
    /\ FLt(ret.lo, ret.hi)

(* C9: the call always returns one of the three outcomes, never faults,    *)
(* and the overflow of n1 + n2 never changes the outcome.                  *)
C9_Total ==
    Called =>
        /\ ret.kind \in {"Ok", "Err"}
        /\ Enough => ret = test_body(args.p1, args.n1, args.p2, args.n2,
                                     args.n1 + args.n2)

(* C10, as stated: some input with n1, n2 >= 5 gives, in this build, a     *)
(* Significant outcome whose lo is negative.                               *)
C10_NegativeLoExists ==
    \E p1 \in Rates, p2 \in Rates, n1 \in Sizes, n2 \in Sizes :
        /\ n1 >= MinSample /\ n2 >= MinSample
        /\ LET r == ab_conversion_test(p1, n1, p2, n2, overflow_checks)
           IN  r.kind = "Ok" /\ FLt(r.lo, Zero)

(* C10, amended: a Significant outcome never has a negative lo: z > 1.96   *)
(* means |p1 - p2| > 1.96 * se, so lo = |p1 - p2| - 1.96 * se >= 0.        *)
C10_LoNotNegative == (Called /\ ret.kind = "Ok") => FLe(Zero, ret.lo)

(* a Significant outcome with a positive standard error and positive lo    *)
C10_Witness ==
    /\ pc = "returned"
    /\ ret.kind = "Ok"
    /\ Enough
    /\ FGt(ComputedSe, Zero)
    /\ FGt(ret.lo, Zero)

(* the second call's locals *)
Second == locals(args.p1, args.n1, args.p2, args.n2)

(* C7, as stated: for the same sizes, the pair with the larger |p1 - p2|   *)
(* has the strictly larger z.  Stated for the pairs whose standard error   *)
(* is positive, where both z are finite.                                   *)
C7_StrictlyMonotone ==
    (pc = "second" /\ FGt(first.se, Zero) /\ FGt(Second.se, Zero))
        => FGt(Second.z, first.z)

(* C7, amended: for the same sizes and the same positive standard error,   *)
(* the pair with the larger |p1 - p2| has a z that is not smaller.         *)
C7_MonotoneSameSe ==
    (pc = "second" /\ Second.se = first.se /\ IsFin(first.se)
        /\ FGt(first.se, Zero)) => FLe(first.z, Second.z)

(* two calls with the same positive standard error, the second with the    *)
(* larger difference and the strictly larger z                             *)
C7_Witness ==
    /\ pc = "second"
    /\ Second.se = first.se
    /\ FGt(first.se, Zero)
    /\ first.p1 # first.p2
    /\ FGt(Second.z, first.z)

====
